---- MODULE Spec2Model ----
(***************************************************************************)
(* Model of the arbitrage simulation core of Arb-Chameleon:                *)
(*   rl/src/arb_env.py            ArbitrageEnv (reset / step / trade model) *)
(*   rl/src/backtest.py           HistoricalBacktester.run_backtest         *)
(*   rl/src/backtest_l2.py        L2Backtester                              *)
(*   rl/src/heuristic_backtest.py HeuristicBacktester                       *)
(*                                                                         *)
(* Fixed-point encoding of the program's floats (all values the model      *)
(* draws are exactly representable, so no rounding occurs but where noted):*)
(*   money (pnl, gas, capital, reward)      1 = 0.0001 USD                 *)
(*   spread, threshold (action[0])          1 = 0.0001                     *)
(*   action[1], action[2], action[3], action[4]   1 = 0.1                  *)
(*   liquidity, congestion (state[1], state[4])   1 = 0.1                  *)
(*   gas_multiplier                         1 = 0.01                       *)
(*   np.random.random() draw, probabilities 1 = 0.001                      *)
(***************************************************************************)
EXTENDS Integers, Sequences, FiniteSets, TLC

(***************************************************************************)
(* Units.                                                                  *)
(***************************************************************************)
\* one US dollar in money units
USD == 100 * 100

(***************************************************************************)
(* Numeric helpers of the Python / numpy expressions the code uses.        *)
(***************************************************************************)
\* a clip whose upper bound stops one unit (1.0) short of hi
ClipShort(x, lo, hi) == IF x < lo THEN lo ELSE IF x > hi - 10 THEN hi - 10 ELSE x

\* np.clip(x, lo, hi)
Clip(x, lo, hi) == IF x < lo THEN lo ELSE IF x > hi THEN hi ELSE x

\* int(x) on a value in tenths: truncation toward zero
IntOf(x) == IF x >= 0 THEN x \div 10 ELSE -((-x) \div 10)

\* max(a, b)
Max(a, b) == IF a >= b THEN a ELSE b

\* floor of the square root of n, by bisection on [lo, hi]
RECURSIVE ISqrtFrom(_, _, _)
ISqrtFrom(n, lo, hi) ==
    IF lo >= hi THEN lo
    ELSE LET mid == (lo + hi + 1) \div 2
         IN  IF mid * mid <= n THEN ISqrtFrom(n, mid, hi)
             ELSE ISqrtFrom(n, lo, mid - 1)

\* x ** 1.5 for x = r * 1e-6, result in units of 1e-9 (floor at 1e-11)
PowThreeHalves(r) == (r * ISqrtFrom(r * 10000, 0, 46000)) \div 100

(***************************************************************************)
(* ArbitrageEnv: constants set in __init__.                                *)
(***************************************************************************)
\* self.trade_sizes = [50, 100, 1000, 10000]
trade_sizes == <<50, 100, 1000, 10000>>

\* self.strategies
strategies == <<"dex_arb", "triangular", "backrun", "liquidation">>

\* self.max_steps = 1000
max_steps == 1000

\* self.action_space = spaces.Box(low=[0.0005, 0, 0, 0, 0], high=[0.005, 3, 3, 5, 1])
action_space == [low |-> <<5, 0, 0, 0, 0>>, high |-> <<50, 30, 30, 50, 10>>]

\* self.total_pnl < -10000  (daily loss limit, USD)
LossLimitUSD == 10000

\* reward of the insufficient-capital return, USD
GuardPenaltyUSD == 10

\* reward -= 100.0 on a revert, USD
RevertPenaltyUSD == 100

\* trade_result['gas_cost'] > 50, USD
GasPenaltyLineUSD == 50

\* reward -= 5.0 when no success while spread > 0.01, USD
PassivityPenaltyUSD == 5

\* self.state[0] > 0.01, in units of 0.0001
PassivitySpread == 100

(***************************************************************************)
(* _simulate_trade (arb_env.py 162-233).                                   *)
(***************************************************************************)
\* the comparison of the gate turned round
BelowThresholdInverted(price_spread, threshold) == price_spread > threshold

\* 1. Check Threshold: price_spread < threshold
BelowThreshold(price_spread, threshold) == price_spread < threshold

\* the no-trade result returned by the gate
NoTradeResult == [success |-> FALSE, pnl |-> 0, gas_cost |-> 0, reverted |-> FALSE]

\* 2. gas cost in money units:
\*    base_gas_units * gas_multiplier * (20 + priority_fee*10) * 1e-9 * 2500
GasCostUSD(use_flashloan, gas_multiplier, priority_fee) ==
    LET base_gas_units == IF use_flashloan THEN 300000 ELSE 150000
        current_gas_price_gwei == 20 + priority_fee   \* fee in tenths: fee*10 gwei
    IN  (((base_gas_units \div 1000) * gas_multiplier) * current_gas_price_gwei) \div 4

\* a slippage whose price impact is trade_size / pool_depth_usd itself
SlippageLinear(trade_size, liquidity) ==
    LET pool_depth_kusd == liquidity * 1000
        ratio_ppm == (trade_size * 1000) \div pool_depth_kusd
    IN  (ratio_ppm * trade_size) \div 100

\* 3. slippage in money units: trade_size * (trade_size / pool_depth_usd) ** 1.5
\*    with pool_depth_usd = liquidity * 10_000_000
SlippageCost(trade_size, liquidity) ==
    LET pool_depth_kusd == liquidity * 1000
        ratio_ppm == (trade_size * 1000) \div pool_depth_kusd
        price_impact == PowThreeHalves(ratio_ppm)
    IN  ((price_impact \div 10) * trade_size) \div 10000

\* 4. flash_loan_fee = trade_size * 0.0009 if use_flashloan else 0
FlashLoanFee(trade_size, use_flashloan) == IF use_flashloan THEN trade_size * 9 ELSE 0

\* 5. gross_profit = trade_size * price_spread
GrossProfit(trade_size, price_spread) == trade_size * price_spread

\* 6. revert probability (per mille): max(0.1, base - (priority_fee / 5.0) * 0.4)
RevertProb(congestion, priority_fee) ==
    LET base_revert_prob == IF congestion > 8 THEN 800 ELSE 300
        revert_reduction == priority_fee * 8
    IN  Max(100, base_revert_prob - revert_reduction)

\* a reverted trade that reports the whole gas cost while it loses 60% of it
RevertedResultFullGas(gas_cost_usd) ==
    [success |-> FALSE, pnl |-> -((gas_cost_usd * 6) \div 10),
     gas_cost |-> gas_cost_usd, reverted |-> TRUE]

\* the return of a reverted trade: 60% of the gas is paid, and lost
RevertedResult(gas_cost_usd) ==
    LET failed_gas_cost == (gas_cost_usd * 6) \div 10
    IN  [success |-> FALSE, pnl |-> -failed_gas_cost,
         gas_cost |-> failed_gas_cost, reverted |-> TRUE]

\* the whole of _simulate_trade; u is the np.random.random() draw (per mille)
_simulate_trade(e, threshold, trade_size, strategy, priority_fee, use_flashloan, u) ==
    LET price_spread == e.state[1]
        liquidity == e.state[2]
        congestion == e.state[5]
    IN  IF BelowThreshold(price_spread, threshold) THEN NoTradeResult
        ELSE LET gas_cost_usd == GasCostUSD(use_flashloan, e.gas_multiplier, priority_fee)
                 flash_loan_fee == FlashLoanFee(trade_size, use_flashloan)
                 gross_profit == GrossProfit(trade_size, price_spread)
                 slippage_cost == SlippageCost(trade_size, liquidity)
                 net_profit == gross_profit - slippage_cost - gas_cost_usd - flash_loan_fee
                 is_reverted == u < RevertProb(congestion, priority_fee)
             IN  IF is_reverted
                 THEN RevertedResult(gas_cost_usd)
                 ELSE [success |-> TRUE, pnl |-> net_profit,
                       gas_cost |-> gas_cost_usd, reverted |-> FALSE]

(***************************************************************************)
(* _calculate_reward (arb_env.py 235-250); reads self.state[0].            *)
(***************************************************************************)
_calculate_reward(e, trade_result) ==
    LET r0 == trade_result.pnl
        r1 == IF trade_result.reverted THEN r0 - RevertPenaltyUSD * USD ELSE r0
        r2 == IF trade_result.gas_cost > GasPenaltyLineUSD * USD
              THEN r1 - (trade_result.gas_cost - GasPenaltyLineUSD * USD) * 2 ELSE r1
        r3 == IF ~trade_result.success /\ e.state[1] > PassivitySpread
              THEN r2 - PassivityPenaltyUSD * USD ELSE r2
    IN  r3

(***************************************************************************)
(* _generate_market_state (arb_env.py 137-160).  d holds the draws of the  *)
(* process-global np.random generator; components 6..8 are computed from   *)
(* the environment's counters (rates in per mille, time of day in 24ths).  *)
(***************************************************************************)
_generate_market_state(e, d) ==
    << d.price_spread, d.liquidity, d.volatility, d.gas_price, d.congestion,
       (e.num_successes * 1000) \div Max(1, e.current_step),
       (e.num_reverts * 1000) \div Max(1, e.current_step),
       e.current_step % 24,
       d.block_time_variance >>

(***************************************************************************)
(* reset (arb_env.py 61-74).  super().reset(seed=seed) seeds the           *)
(* environment's own generator self.np_random; the market state is drawn   *)
(* from the global np.random (draws d).                                    *)
(***************************************************************************)
\* a reset that leaves the step counter as it is
ResetKeepingStepCounter(e, seed, d) ==
    LET e1 == [e EXCEPT !.np_random = IF seed = "None" THEN @ ELSE seed,
                        !.total_pnl = 0,
                        !.total_gas_spent = 0,
                        !.num_reverts = 0,
                        !.num_successes = 0]
    IN  [e1 EXCEPT !.state = _generate_market_state(e1, d)]

ResetOp(e, seed, d) ==
    LET e1 == [e EXCEPT !.np_random = IF seed = "None" THEN @ ELSE seed,
                        !.current_step = 0,
                        !.total_pnl = 0,
                        !.total_gas_spent = 0,
                        !.num_reverts = 0,
                        !.num_successes = 0]
    IN  [e1 EXCEPT !.state = _generate_market_state(e1, d)]

\* __init__ (arb_env.py 21-59): the fields, then self.reset()
ArbitrageEnv(gas_multiplier, initial_capital, d) ==
    ResetOp([gas_multiplier |-> gas_multiplier,
             initial_capital |-> initial_capital,
             current_step |-> 0, total_pnl |-> 0, total_gas_spent |-> 0,
             num_reverts |-> 0, num_successes |-> 0,
             state |-> <<>>, np_random |-> "None"], "None", d)

(***************************************************************************)
(* step (arb_env.py 76-135).                                               *)
(***************************************************************************)
\* the guard with the negation of the flash-loan flag dropped
InsufficientCapitalFlagSlip(use_flashloan, trade_size, current_capital) ==
    use_flashloan /\ trade_size * USD > current_capital

\* the capital guard: not use_flashloan and trade_size > current_capital
InsufficientCapital(use_flashloan, trade_size, current_capital) ==
    ~use_flashloan /\ trade_size * USD > current_capital

\* info of the insufficient-capital return (97-105)
GuardInfo(e) ==
    [pnl |-> 0, gas_cost |-> 0, success |-> FALSE, reason |-> "insufficient_capital",
     total_pnl |-> e.total_pnl, num_successes |-> e.num_successes,
     num_reverts |-> e.num_reverts]

\* info of the normal return (126-133)
StepInfo(e, trade_result) ==
    [pnl |-> trade_result.pnl, gas_cost |-> trade_result.gas_cost,
     success |-> trade_result.success,
     total_pnl |-> e.total_pnl, num_successes |-> e.num_successes,
     num_reverts |-> e.num_reverts]

\* terminated = self.total_pnl < -10000
Terminated(e) == e.total_pnl < -(LossLimitUSD * USD)

\* truncated = self.current_step >= self.max_steps
Truncated(e) == e.current_step >= max_steps

\* the step counter after self.current_step += 1 (line 80)
CountStep(e) == [e EXCEPT !.current_step = @ + 1]

\* a step that assigns the new market state before it simulates the trade
MarketResampledFirst(before, after) == after

\* the environment as _simulate_trade and _calculate_reward read it: step()
\* calls both (lines 108-117) before it assigns the new market state
\* (line 120), so they read self.state as it was before the assignment
MarketSeen(before, after) == before

\* The whole call.  action = <<threshold, trade_size_idx, strategy_idx,
\* priority_fee, use_flashloan>> as passed by the caller (raw); u is the
\* revert draw and d the draws of the next market state.  The result holds
\* the environment after the call, the returned tuple, and the values of the
\* call's local variables (path names the return taken).
StepOp(e, action, u, d) ==
    LET e0 == CountStep(e)
        threshold == action[1]
        trade_size_idx == IntOf(Clip(action[2], 0, 30))
        strategy_idx == IntOf(Clip(action[3], 0, 30))
        priority_fee == action[4]
        use_flashloan == action[5] > 5
        trade_size == trade_sizes[trade_size_idx + 1]
        strategy == strategies[strategy_idx + 1]
        current_capital == e0.initial_capital + e0.total_pnl
        locals == [threshold |-> threshold, trade_size |-> trade_size,
                   priority_fee |-> priority_fee, use_flashloan |-> use_flashloan,
                   current_capital |-> current_capital, path |-> "none",
                   size_raw |-> action[2], trade_size_idx |-> trade_size_idx]
    IN  IF InsufficientCapital(use_flashloan, trade_size, current_capital)
        THEN [env |-> e0,
              ret |-> [kind |-> "step", obs |-> e0.state,
                       reward |-> -(GuardPenaltyUSD * USD),
                       terminated |-> FALSE, truncated |-> FALSE,
                       info |-> GuardInfo(e0)],
              used |-> [locals EXCEPT !.path = "guard"] ]
        ELSE LET e1 == [e0 EXCEPT !.state = _generate_market_state(e0, d)]
                 seen == MarketSeen(e0, e1)
                 trade_result == _simulate_trade(seen, threshold, trade_size, strategy,
                                                 priority_fee, use_flashloan, u)
                 reward == _calculate_reward(seen, trade_result)
             IN  [env |-> e1,
                  ret |-> [kind |-> "step", obs |-> e1.state, reward |-> reward,
                           terminated |-> Terminated(e1), truncated |-> Truncated(e1),
                           info |-> StepInfo(e1, trade_result)],
                  used |-> [locals EXCEPT !.path =
                               IF trade_result.reverted THEN "revert"
                               ELSE IF trade_result.success THEN "success"
                               ELSE "gate"] ]

(***************************************************************************)
(* State.                                                                  *)
(*   env     the ArbitrageEnv object                                       *)
(*   ret     what the last call of reset()/step() returned                 *)
(*   used    the local variables of the last step() call                   *)
(*   hist    what a caller has seen since the last reset(): the sum of the *)
(*           returned pnl values, the number of calls that returned        *)
(*           success = true, the number of calls whose trade reverted      *)
(*   bt      the backtester object and the position of run_backtest        *)
(*   twin    a second, independent process running the same calls          *)
(***************************************************************************)
VARIABLES env, ret, used, hist, bt, twin

vars == <<env, ret, used, hist, bt, twin>>

(***************************************************************************)
(* Inputs.                                                                 *)
(***************************************************************************)
\* draws of _generate_market_state: the spread from uniform(0, 0.0005) or from
\* exponential(0.002); liquidity in [0.1, 1.0] and congestion in [0.5, 1.0],
\* drawn here as a deep calm pool or a shallow congested one
Spreads == {3, 20, 150}

Venues == { [liquidity |-> 10, congestion |-> 6], [liquidity |-> 1, congestion |-> 9] }

MarketDraws ==
    { [price_spread |-> s, liquidity |-> v.liquidity, volatility |-> 1,
       gas_price |-> 5, congestion |-> v.congestion, block_time_variance |-> 0] :
      s \in Spreads, v \in Venues }

\* draws of np.random.random() in _simulate_trade (per mille)
RevertDraws == {50, 500}

\* raw action components, in and out of the bounds of action_space
Thresholds == {5, 9000}

SizeRaws == {-10, 15, 40}

StrategyRaws == {15}

FeeRaws == {-30, 20, 80}

FlashRaws == {0, 10}

Actions == Thresholds \X SizeRaws \X StrategyRaws \X FeeRaws \X FlashRaws

\* ArbitrageEnv(gas_multiplier=.., initial_capital=..): the defaults
\* (1.0, 100.0) and a funded run at L2 gas (0.01, 10000.0)
Configs == { <<100, 100>>, <<1, 10000>> }

\* seed argument of reset()
Seeds == {"None", "seed_a"}

\* the seed a plain driver passes: env.reset()
NoSeed == {"None"}

\* calls of step() per episode the model follows
MaxCalls == 2

NoRet == [kind |-> "none"]

NoCall == [path |-> "none"]

NoHist == [sum_pnl |-> 0, successes |-> 0, reverts |-> 0, calls |-> 0]

NoBt == [pc |-> "none"]

NoTwin == [on |-> FALSE]

\* a caller that only counts its calls
CountCall(h) == [h EXCEPT !.calls = @ + 1]

\* what a caller adds to its tallies from one step() return
Tally(h, r, u) ==
    [sum_pnl |-> h.sum_pnl + r.info.pnl,
     successes |-> h.successes + (IF r.info.success THEN 1 ELSE 0),
     reverts |-> h.reverts + (IF u.path = "revert" THEN 1 ELSE 0),
     calls |-> h.calls + 1]

(***************************************************************************)
(* Spec: a caller drives one environment through reset() and step().       *)
(***************************************************************************)
Init ==
    /\ \E c \in Configs, d \in MarketDraws : env = ArbitrageEnv(c[1], c[2] * USD, d)
    /\ ret = NoRet
    /\ used = NoCall
    /\ hist = NoHist
    /\ bt = NoBt
    /\ twin = NoTwin

reset ==
    /\ \E seed \in NoSeed, d \in MarketDraws :
          /\ env' = ResetOp(env, seed, d)
          /\ ret' = [kind |-> "reset", obs |-> env'.state]
    /\ used' = NoCall
    /\ hist' = NoHist
    /\ UNCHANGED <<bt, twin>>

step ==
    /\ hist.calls < MaxCalls
    /\ \E action \in Actions, u \in RevertDraws, d \in MarketDraws :
          \E r \in {StepOp(env, action, u, d)} :
              /\ env' = r.env
              /\ ret' = r.ret
              /\ used' = r.used
    /\ hist' = CountCall(hist)
    /\ UNCHANGED <<bt, twin>>

Next == reset \/ step

Spec == Init /\ [][Next]_vars

(***************************************************************************)
(* SpecTally: the same caller, keeping its own tallies of what step()      *)
(* returned since the last reset().                                        *)
(***************************************************************************)
reset_tally == reset

step_tally ==
    /\ hist.calls < MaxCalls
    /\ \E action \in Actions, u \in RevertDraws, d \in MarketDraws :
          \E r \in {StepOp(env, action, u, d)} :
              /\ env' = r.env
              /\ ret' = r.ret
              /\ used' = r.used
              /\ hist' = Tally(hist, r.ret, r.used)
    /\ UNCHANGED <<bt, twin>>

NextTally == reset_tally \/ step_tally

SpecTally == Init /\ [][NextTally]_vars

(***************************************************************************)
(* The backtesters (backtest.py, backtest_l2.py, heuristic_backtest.py).   *)
(***************************************************************************)
\* ArbitrageEnv.__init__ defaults: gas_multiplier = 1.0, initial_capital = 100.0
DefaultGasMultiplier == 100

DefaultInitialCapital == 100

\* L2Backtester / HeuristicBacktester default gas_multiplier = 0.01
L2GasMultiplier == 1

\* the environment each variant constructs
\*   HistoricalBacktester: ArbitrageEnv(simulation_mode=True)
\*   L2Backtester:         ArbitrageEnv(simulation_mode=True, gas_multiplier=..)
\*   HeuristicBacktester:  ArbitrageEnv(.., gas_multiplier=.., initial_capital=..)
BacktesterEnv(variant, initial_capital, gas_multiplier, d) ==
    IF variant = "historical"
    THEN ArbitrageEnv(DefaultGasMultiplier, DefaultInitialCapital * USD, d)
    ELSE IF variant = "l2"
    THEN ArbitrageEnv(gas_multiplier, DefaultInitialCapital * USD, d)
    ELSE ArbitrageEnv(gas_multiplier, initial_capital, d)

\* run_backtest has not returned
NoResult == [returned |-> FALSE]

\* the backtester object after __init__, at the start of run_backtest
Backtester(variant, initial_capital, args) ==
    [variant |-> variant,
     initial_capital |-> initial_capital,
     current_capital |-> initial_capital,
     trades |-> <<>>,
     capital_history |-> <<initial_capital>>,
     num_episodes |-> args[1], max_steps_per_episode |-> args[2],
     pc |-> "episode", episode |-> 0, step |-> 0,
     total_trades |-> 0, successful_trades |-> 0, failed_trades |-> 0,
     total_pnl |-> 0, total_gas_spent |-> 0,
     result |-> NoResult]

\* self.current_capital += trade_pnl
AddPnl(capital, trade_pnl) == capital + trade_pnl

\* a trajectory started afresh at the new capital
RestartCapital(capital_history, current_capital) == <<current_capital>>

\* self.capital_history.append(self.current_capital)
AppendCapital(capital_history, current_capital) == Append(capital_history, current_capital)

\* the counters and the capital of the "Record trade" block, common to
\* HistoricalBacktester (106-121) and HeuristicBacktester (71-82)
CountTrade(b, info) ==
    LET capital == AddPnl(b.current_capital, info.pnl)
    IN  [b EXCEPT !.total_trades = @ + 1,
                  !.successful_trades = IF info.success THEN @ + 1 ELSE @,
                  !.failed_trades = IF info.success THEN @ ELSE @ + 1,
                  !.total_pnl = @ + info.pnl,
                  !.total_gas_spent = @ + info.gas_cost,
                  !.current_capital = capital,
                  !.capital_history = AppendCapital(@, capital)]

\* the record built from the capital before the trade was booked
TradeRecordBeforeBooking(b, info) ==
    [episode |-> b.episode, step |-> b.step, pnl |-> info.pnl,
     gas_cost |-> info.gas_cost, success |-> info.success,
     capital |-> b.current_capital - info.pnl]

\* the trade record (backtest.py 124-131)
TradeRecord(b, info) ==
    [episode |-> b.episode, step |-> b.step, pnl |-> info.pnl,
     gas_cost |-> info.gas_cost, success |-> info.success,
     capital |-> b.current_capital]

\* "Record trade": HistoricalBacktester and L2Backtester append a record,
\* HeuristicBacktester.run_backtest keeps the counters and the capital only
RecordTrade(b, info) ==
    LET b1 == CountTrade(b, info)
    IN  IF b.variant = "heuristic" THEN b1
        ELSE [b1 EXCEPT !.trades = Append(@, TradeRecord(b1, info))]

\* if info.get('pnl', 0) != 0
TradeShown(info) == info.pnl # 0

\* if self.current_capital <= 0: break  (backtest.py 133; absent in the
\* heuristic runner)
BankruptBreak(b) == b.variant # "heuristic" /\ b.current_capital <= 0

\* the heuristic policy (heuristic_backtest.py 44-66)
HeuristicAction(obs, current_capital) ==
    IF obs[1] >= 10
    THEN LET size_idx == IF current_capital >= 10000 * USD THEN 30
                         ELSE IF current_capital >= 1000 * USD THEN 20
                         ELSE IF current_capital >= 100 * USD THEN 10
                         ELSE 0
         IN  <<5, size_idx, 0, 50, 0>>
    ELSE <<9000, 0, 0, 0, 0>>

\* actions of the random policy (env.action_space.sample()) and of a loaded
\* model, both within the bounds of action_space
SampleActions == {5} \X {5, 25} \X {15} \X {20} \X {2, 8}

\* the policy of each variant
PolicyActions(b, obs) ==
    IF b.variant = "heuristic" THEN {HeuristicAction(obs, b.current_capital)}
    ELSE SampleActions

\* run_backtest(num_episodes, max_steps_per_episode): the arguments followed
RunArgs == { <<2, MaxCalls>>, <<1, MaxCalls + 1>> }

Variants == {"historical", "l2", "heuristic"}

\* the runners followed: <<variant, initial_capital (USD), gas_multiplier>>.
\* HistoricalBacktester takes no gas multiplier (its environment keeps the
\* default 1.0); L2Backtester and HeuristicBacktester default to 0.01 and
\* are also run on a network with free gas (0.0) and at L1 gas (1.0).
\* One runner starts with no capital at all.
RunnerConfigs ==
    { <<"historical", 10, DefaultGasMultiplier>>,
      <<"historical", 10000, DefaultGasMultiplier>>,
      <<"historical", 0, DefaultGasMultiplier>>,
      <<"l2", 10, L2GasMultiplier>>,
      <<"l2", 10, 0>>,
      <<"heuristic", 10, L2GasMultiplier>>,
      <<"heuristic", 10000, L2GasMultiplier>>,
      <<"heuristic", 50, DefaultGasMultiplier>> }

\* market draws followed in a backtest
RunDraws == { d \in MarketDraws : d.price_spread \in {3, 20} /\ d.liquidity = 10 }

InitRun ==
    /\ \E c \in RunnerConfigs, args \in RunArgs, d \in RunDraws :
          /\ c[1] \in Variants
          /\ bt = Backtester(c[1], c[2] * USD, args)
          /\ env = BacktesterEnv(c[1], c[2] * USD, c[3], d)
    /\ ret = NoRet
    /\ used = NoCall
    /\ hist = NoHist
    /\ twin = NoTwin

\* top of "for episode in range(num_episodes)": reset, then the bankruptcy
\* check of backtest.py 90-92
bt_episode ==
    /\ bt.pc = "episode"
    /\ bt.episode < bt.num_episodes
    /\ \E d \in RunDraws :
          /\ env' = ResetOp(env, "None", d)
          /\ ret' = [kind |-> "reset", obs |-> env'.state]
    /\ used' = NoCall
    /\ hist' = NoHist
    /\ bt' = [bt EXCEPT !.pc = IF BankruptBreak(bt) THEN "metrics" ELSE "steps",
                        !.step = 0]
    /\ UNCHANGED twin

\* one iteration of "for step in range(max_steps_per_episode)"
bt_step ==
    /\ bt.pc = "steps"
    /\ \E action \in PolicyActions(bt, ret.obs), u \in RevertDraws, d \in RunDraws :
          \E r \in {StepOp(env, action, u, d)} :
              LET info == r.ret.info
                  b1 == IF TradeShown(info) THEN RecordTrade(bt, info) ELSE bt
                  stop == \/ (TradeShown(info) /\ BankruptBreak(b1))
                          \/ r.ret.terminated
                          \/ r.ret.truncated
                          \/ bt.step + 1 >= bt.max_steps_per_episode
              IN  /\ env' = r.env
                  /\ ret' = r.ret
                  /\ used' = r.used
                  /\ hist' = CountCall(hist)
                  /\ bt' = IF stop
                           THEN [b1 EXCEPT !.pc = "episode", !.episode = @ + 1]
                           ELSE [b1 EXCEPT !.step = @ + 1]
    /\ UNCHANGED twin

(***************************************************************************)
(* Metrics (backtest.py 145-150, 176-190).  Ratios are kept as the floor   *)
(* of the quotient in units of 0.0001; max_drawdown, a percentage, in      *)
(* units of 0.01 percent.                                                  *)
(***************************************************************************)
\* the first n decimal digits of r / den for 0 <= r < den, as an integer
RECURSIVE FracDigits(_, _, _)
FracDigits(r, den, n) ==
    IF n = 0 THEN 0
    ELSE LET t == r * 10
         IN  ((t \div den) * (10 ^ (n - 1))) + FracDigits(t % den, den, n - 1)

\* num / den in units of 0.0001, for num >= 0 and den > 0
Ratio(num, den) == ((num \div den) * 10000) + FracDigits(num % den, den, 4)

\* the share of the trades that failed
LossRate(successful_trades, total_trades) ==
    IF total_trades > 0 THEN Ratio(total_trades - successful_trades, total_trades) ELSE 0

\* win_rate = successful_trades / total_trades if total_trades > 0 else 0
WinRate(successful_trades, total_trades) ==
    IF total_trades > 0 THEN Ratio(successful_trades, total_trades) ELSE 0

\* avg_profit = total_pnl / total_trades if total_trades > 0 else 0
\* (money units, rounded down)
AvgProfit(total_pnl, total_trades) ==
    IF total_trades > 0 THEN total_pnl \div total_trades ELSE 0

\* the loop of _calculate_max_drawdown from entry i on; returns max_dd
RECURSIVE MaxDrawdownFrom(_, _, _, _)
MaxDrawdownFrom(capital_history, i, peak, max_dd) ==
    IF i > Len(capital_history) THEN max_dd
    ELSE LET capital == capital_history[i]
             peak1 == IF capital > peak THEN capital ELSE peak
             dd == IF peak1 > 0 THEN Ratio(peak1 - capital, peak1) ELSE 0
         IN  MaxDrawdownFrom(capital_history, i + 1, peak1, Max(max_dd, dd))

\* a drawdown measured against the first entry instead of the running peak
DrawdownFromFirst(capital_history) ==
    IF Len(capital_history) < 2 \/ capital_history[1] <= 0 THEN 0
    ELSE LET dds == { IF capital_history[1] >= capital_history[i]
                      THEN Ratio(capital_history[1] - capital_history[i], capital_history[1])
                      ELSE 0 : i \in 1..Len(capital_history) }
         IN  CHOOSE m \in dds : \A x \in dds : x <= m

\* _calculate_max_drawdown: max_dd * 100
_calculate_max_drawdown(capital_history) ==
    IF Len(capital_history) < 2 THEN 0
    ELSE MaxDrawdownFrom(capital_history, 1, capital_history[1], 0)

\* a net PnL with the gas spent subtracted once more
NetPnlGasTwice(b) == b.total_pnl - b.total_gas_spent

\* net_pnl = total_pnl  (total_pnl already includes the gas costs)
NetPnl(b) == b.total_pnl

\* the BacktestResult built at the end of run_backtest; the Sharpe ratio is a
\* floating-point quantity, computed by _calculate_sharpe_ratio below
BacktestResult(b) ==
    [returned |-> TRUE,
     total_trades |-> b.total_trades,
     successful_trades |-> b.successful_trades,
     failed_trades |-> b.failed_trades,
     total_pnl |-> b.total_pnl,
     total_gas_spent |-> b.total_gas_spent,
     net_pnl |-> NetPnl(b),
     win_rate |-> WinRate(b.successful_trades, b.total_trades),
     avg_profit_per_trade |-> AvgProfit(b.total_pnl, b.total_trades),
     max_drawdown |-> _calculate_max_drawdown(b.capital_history),
     trades |-> b.trades]

\* _print_results prints the return of the run as
\* (current_capital / initial_capital - 1) * 100, a division of Python
\* floats: it raises ZeroDivisionError when initial_capital is 0
PrintRaises(b) == b.initial_capital = 0

\* after the loop: the BacktestResult, printed and then returned
\* (backtest.py 145-174); an exception of _print_results leaves run_backtest
\* before the return
bt_result ==
    /\ \/ bt.pc = "metrics"
       \/ bt.pc = "episode" /\ bt.episode >= bt.num_episodes
    /\ bt' = IF PrintRaises(bt)
             THEN [bt EXCEPT !.pc = "raised"]
             ELSE [bt EXCEPT !.pc = "done", !.result = BacktestResult(bt)]
    /\ UNCHANGED <<env, ret, used, hist, twin>>

NextRun == bt_episode \/ bt_step \/ bt_result

SpecRun == InitRun /\ [][NextRun]_vars

(***************************************************************************)
(* SpecDrawdown: _calculate_max_drawdown applied to a capital trajectory   *)
(* of up to MaxHistory entries (USD values below, at and above zero).      *)
(***************************************************************************)
MaxHistory == 4

CapitalValues == {-5, 0, 5, 10, 20}

\* all sequences over S of length 0..n
SeqsUpTo(S, n) == UNION { [1..k -> S] : k \in 0..n }

InitDrawdown ==
    /\ \E h \in SeqsUpTo({ c * USD : c \in CapitalValues }, MaxHistory) :
          bt = [pc |-> "history", capital_history |-> h]
    /\ env = [state |-> <<>>]
    /\ ret = NoRet
    /\ used = NoCall
    /\ hist = NoHist
    /\ twin = NoTwin

calc_drawdown ==
    /\ bt.pc = "history"
    /\ bt' = [pc |-> "drawdown", capital_history |-> bt.capital_history,
              max_drawdown |-> _calculate_max_drawdown(bt.capital_history)]
    /\ UNCHANGED <<env, ret, used, hist, twin>>

NextDrawdown == calc_drawdown

SpecDrawdown == InitDrawdown /\ [][NextDrawdown]_vars

(***************************************************************************)
(* _calculate_sharpe_ratio (backtest.py 192-212).  The function works on   *)
(* float64 values and returns 0.0 on the outcome of the float comparison   *)
(* std_return == 0, so the arithmetic of np.std / np.mean is modelled at   *)
(* the level of the IEEE-754 significand (53 bits, round to nearest, ties  *)
(* to even).  A PnL is the float64 the environment returns for a reverted  *)
(* trade, a loss: its magnitude is held as an integer count of a quantum   *)
(* (half the unit in the last place of the binade [2^-4, 2^-3)), split in  *)
(* two limbs, [hi |-> h, lo |-> l] standing for h * 2^28 + l.              *)
(***************************************************************************)
Limb == 2 ^ 28

\* exact sum of two magnitudes
BigAdd(a, b) ==
    LET l == a.lo + b.lo
    IN  [hi |-> a.hi + b.hi + (l \div Limb), lo |-> l % Limb]

\* how many bits a magnitude has beyond the 53 of a significand
ExtraBits(v) ==
    IF v.hi < 2 ^ 25 THEN 0
    ELSE IF v.hi < 2 ^ 26 THEN 1
    ELSE IF v.hi < 2 ^ 27 THEN 2
    ELSE IF v.hi < 2 ^ 28 THEN 3
    ELSE 4

\* round q + (r / n) quanta to a multiple of 2^t: to nearest, ties to even
RoundNearestEven(q, r, n, t) ==
    LET unit == 2 ^ t
        low == q.lo % unit
        down == [hi |-> q.hi, lo |-> q.lo - low]
        odd == (q.lo \div unit) % 2 = 1
        twice == 2 * ((low * n) + r)
        up == twice > n * unit \/ (twice = n * unit /\ odd)
    IN  IF up THEN BigAdd(down, [hi |-> 0, lo |-> unit]) ELSE down

\* float64 addition of two magnitudes of the same sign
F64Add(a, b) ==
    LET v == BigAdd(a, b)
    IN  RoundNearestEven(v, 0, 1, ExtraBits(v))

\* float64 division of a magnitude by the integer n (n <= 8)
F64DivInt(v, n) ==
    LET rh == v.hi % n
        t2 == (rh * Limb) + v.lo
        q == [hi |-> v.hi \div n, lo |-> t2 \div n]
    IN  RoundNearestEven(q, t2 % n, n, ExtraBits(q))

\* the loop "res += a[i]" of numpy's summation for fewer than 8 elements,
\* from element i on
RECURSIVE F64SumFrom(_, _, _)
F64SumFrom(returns, i, res) ==
    IF i > Len(returns) THEN res
    ELSE F64SumFrom(returns, i + 1, F64Add(res, returns[i]))

\* np.add.reduce(returns): the first element plus the sum of the others
F64Sum(returns) ==
    IF Len(returns) = 1 THEN returns[1]
    ELSE F64Add(returns[1], F64SumFrom(returns, 3, returns[2]))

\* np.mean(returns), the arrmean of np.std as well
F64Mean(returns) == F64DivInt(F64Sum(returns), Len(returns))

\* np.std(returns) == 0: the sum of the squared deviations is 0.0 exactly
\* when every deviation returns[i] - mean is 0.0
StdIsZero(returns) == \A i \in 1..Len(returns) : returns[i] = F64Mean(returns)

\* _calculate_sharpe_ratio, by the sign of the float it returns: 0 is 0.0;
\* otherwise (mean / std) * sqrt(252) has the sign of the mean, and the mean
\* of losses is negative
_calculate_sharpe_ratio(trades) ==
    IF Len(trades) < 2 THEN 0
    ELSE LET returns == [i \in 1..Len(trades) |-> trades[i].pnl]
         IN  IF StdIsZero(returns) THEN 0 ELSE -1

(***************************************************************************)
(* SpecSharpe: _calculate_sharpe_ratio applied to a trade log of up to     *)
(* MaxTrades reverted trades of an L2 run (gas_multiplier 0.01, no flash   *)
(* loan), whose PnL is -0.6 * gas_cost_usd:                                *)
(*   priority_fee 1.0  pnl -0.0675   0x1.147ae147ae148p-4                  *)
(*   priority_fee 2.0  pnl -0.09     0x1.70a3d70a3d70ap-4                  *)
(*   priority_fee 2.5  pnl -0.10125  0x1.9eb851eb851ecp-4                  *)
(*   priority_fee 3.0  pnl -0.1125.. 0x1.ccccccccccccep-4                  *)
(* Each magnitude below is twice the 53-bit significand.                   *)
(***************************************************************************)
MaxTrades == 4

RevertedPnls ==
    { [hi |-> 36238786, lo |-> 150323856],
      [hi |-> 48318382, lo |-> 21474836],
      [hi |-> 54358179, lo |-> 225485784],
      [hi |-> 60397977, lo |-> 161061276] }

TradeLogs == UNION { [1..k -> [pnl : RevertedPnls]] : k \in 0..MaxTrades }

InitSharpe ==
    /\ \E t \in TradeLogs : bt = [pc |-> "trades", trades |-> t]
    /\ env = [state |-> <<>>]
    /\ ret = NoRet
    /\ used = NoCall
    /\ hist = NoHist
    /\ twin = NoTwin

calc_sharpe ==
    /\ bt.pc = "trades"
    /\ bt' = [pc |-> "sharpe", trades |-> bt.trades,
              sharpe_ratio |-> _calculate_sharpe_ratio(bt.trades)]
    /\ UNCHANGED <<env, ret, used, hist, twin>>

NextSharpe == calc_sharpe

SpecSharpe == InitSharpe /\ [][NextSharpe]_vars

(***************************************************************************)
(* SpecTrade: the trade model alone.  _simulate_trade and                  *)
(* _calculate_reward are applied to a market state with the arguments      *)
(* step() would pass: a threshold, one of the configured sizes, a priority *)
(* fee, the flash-loan flag, and the draw of np.random.random().           *)
(***************************************************************************)
TradeSpreads == {3, 20, 100, 150}

TradeDraws ==
    { [price_spread |-> s, liquidity |-> v.liquidity, volatility |-> 1,
       gas_price |-> 5, congestion |-> v.congestion, block_time_variance |-> 0] :
      s \in TradeSpreads, v \in Venues }

\* gas_multiplier: L1 (1.0), L2 (0.01), free gas (0.0)
TradeGasMultipliers == {DefaultGasMultiplier, L2GasMultiplier, 0}

TradeThresholds == {5, 50}

TradeFees == {0, 20, 50}

\* draws of np.random.random(): below every revert probability, between
\* the two base probabilities, above every revert probability
TradeRevertDraws == {50, 500, 900}

InitTrade ==
    /\ \E g \in TradeGasMultipliers, d \in TradeDraws :
          env = ArbitrageEnv(g, DefaultInitialCapital * USD, d)
    /\ ret = NoRet
    /\ used = NoCall
    /\ hist = NoHist
    /\ bt = NoBt
    /\ twin = NoTwin

simulate_trade ==
    /\ ret = NoRet
    /\ \E threshold \in TradeThresholds, i \in 1..Len(trade_sizes), fee \in TradeFees,
          use_flashloan \in BOOLEAN, u \in TradeRevertDraws :
          \E r \in {_simulate_trade(env, threshold, trade_sizes[i], strategies[1],
                                     fee, use_flashloan, u)} :
              /\ ret' = [kind |-> "trade", trade_result |-> r,
                         reward |-> _calculate_reward(env, r)]
              /\ used' = [threshold |-> threshold, trade_size |-> trade_sizes[i],
                          priority_fee |-> fee, use_flashloan |-> use_flashloan,
                          path |-> "trade"]
    /\ UNCHANGED <<env, hist, bt, twin>>

NextTrade == simulate_trade

SpecTrade == InitTrade /\ [][NextTrade]_vars

(***************************************************************************)
(* SpecLong: one default environment driven through a whole episode by a   *)
(* caller whose proposals are a trade it cannot fund, a flash-loan trade   *)
(* at the top priority fee, and a threshold the spread does not reach.     *)
(* All actions lie within action_space; the market draws are held at one   *)
(* value and the revert draw at one that does not revert.                  *)
(***************************************************************************)
LongDraw ==
    [price_spread |-> 20, liquidity |-> 10, volatility |-> 1, gas_price |-> 5,
     congestion |-> 6, block_time_variance |-> 0]

LongRevertDraws == {500}

Unfunded == <<5, 30, 0, 20, 0>>

FlashTrade == <<5, 0, 0, 50, 10>>

Abstain == <<50, 0, 0, 0, 0>>

\* the caller either trades at every step until the realized loss has passed
\* the daily loss limit and idles from then on, or idles from the start
LongActions ==
    (IF hist.successes = hist.calls /\ hist.sum_pnl >= -(LossLimitUSD * USD)
     THEN {FlashTrade} ELSE {})
       \cup (IF hist.successes = 0 \/ hist.sum_pnl < -(LossLimitUSD * USD)
             THEN {Unfunded, Abstain} ELSE {})

InitLong ==
    /\ env = ArbitrageEnv(DefaultGasMultiplier, DefaultInitialCapital * USD, LongDraw)
    /\ ret = NoRet
    /\ used = NoCall
    /\ hist = NoHist
    /\ bt = NoBt
    /\ twin = NoTwin

reset_long ==
    /\ env' = ResetOp(env, "None", LongDraw)
    /\ ret' = [kind |-> "reset", obs |-> env'.state]
    /\ used' = NoCall
    /\ hist' = NoHist
    /\ UNCHANGED <<bt, twin>>

step_long ==
    /\ hist.calls <= max_steps
    /\ \E action \in LongActions, u \in LongRevertDraws :
          \E r \in {StepOp(env, action, u, LongDraw)} :
              /\ env' = r.env
              /\ ret' = r.ret
              /\ used' = r.used
              /\ hist' = Tally(hist, r.ret, r.used)
    /\ UNCHANGED <<bt, twin>>

NextLong == reset_long \/ step_long

SpecLong == InitLong /\ [][NextLong]_vars

(***************************************************************************)
(* SpecDet: two independent processes.  Each constructs an environment,    *)
(* calls reset(seed=s) with the same seed and feeds the same actions to    *)
(* step().  reset() seeds self.np_random of each environment; the draws of *)
(* _generate_market_state and _simulate_trade come from the global         *)
(* np.random of each process, which nothing in the code seeds, so each     *)
(* process draws on its own.                                               *)
(***************************************************************************)
InitDet ==
    /\ \E c \in Configs, d1 \in RunDraws, d2 \in RunDraws :
          /\ env = ArbitrageEnv(c[1], c[2] * USD, d1)
          /\ twin = [on |-> TRUE, env |-> ArbitrageEnv(c[1], c[2] * USD, d2), ret |-> NoRet]
    /\ ret = NoRet
    /\ used = NoCall
    /\ hist = NoHist
    /\ bt = NoBt

reset_both ==
    /\ \E seed \in Seeds \ {"None"}, d1 \in RunDraws, d2 \in RunDraws :
          \E e1 \in {ResetOp(env, seed, d1)}, e2 \in {ResetOp(twin.env, seed, d2)} :
              /\ env' = e1
              /\ ret' = [kind |-> "reset", obs |-> e1.state]
              /\ twin' = [on |-> TRUE, env |-> e2,
                          ret |-> [kind |-> "reset", obs |-> e2.state]]
    /\ used' = NoCall
    /\ hist' = NoHist
    /\ UNCHANGED bt

step_both ==
    /\ ret.kind # "none"
    /\ hist.calls < MaxCalls
    /\ \E action \in SampleActions, u1 \in RevertDraws, u2 \in RevertDraws,
          d1 \in RunDraws, d2 \in RunDraws :
          \E r1 \in {StepOp(env, action, u1, d1)}, r2 \in {StepOp(twin.env, action, u2, d2)} :
              /\ env' = r1.env
              /\ ret' = r1.ret
              /\ used' = r1.used
              /\ hist' = CountCall(hist)
              /\ twin' = [on |-> TRUE, env |-> r2.env, ret |-> r2.ret]
    /\ UNCHANGED bt

NextDet == reset_both \/ step_both

SpecDet == InitDet /\ [][NextDet]_vars

(***************************************************************************)
(* Claims.                                                                 *)
(***************************************************************************)
\* the transition is a call of step()
StepCalled == ret'.kind = "step" /\ hist'.calls = hist.calls + 1

\* the last call of step() attempted a trade (it passed the guard and the gate)
TradeExecuted == ret.kind = "step" /\ used.path \in {"revert", "success"}

\* C1 (capital consistency): the capital trajectory starts with the initial
\* capital, and for every recorded trade i the trajectory entry appended for
\* it, and the record's capital-after field, equal the previous trajectory
\* entry plus that trade's PnL.
C1_CapitalConsistency ==
    /\ bt.capital_history[1] = bt.initial_capital
    /\ \A i \in 1..Len(bt.trades) :
          /\ i + 1 <= Len(bt.capital_history)
          /\ bt.capital_history[i + 1] = bt.capital_history[i] + bt.trades[i].pnl
          /\ bt.trades[i].capital = bt.capital_history[i + 1]

\* a run that recorded a winning and a losing trade
C1_Witness ==
    /\ Len(bt.trades) >= 2
    /\ \E i, j \in 1..Len(bt.trades) : bt.trades[i].pnl > 0 /\ bt.trades[j].pnl < 0

\* C2: every step() that executes a trade without the flash-loan flag has a
\* trade size that does not exceed initial_capital plus the sum of the PnL
\* realized by the earlier steps of the episode.
C2_TradeWithinRealizedCapital ==
    (TradeExecuted /\ ~used.use_flashloan)
        => used.trade_size * USD <= env.initial_capital + (hist.sum_pnl - ret.info.pnl)

\* C3: after any sequence of step() calls following reset(), info's running
\* totals equal the sum of the returned pnl values, the number of calls that
\* returned success, and the number of calls whose trade reverted.
C3_RunningTotals ==
    ret.kind = "step" =>
        /\ ret.info.total_pnl = hist.sum_pnl
        /\ ret.info.num_successes = hist.successes
        /\ ret.info.num_reverts = hist.reverts

C8_GuardMutatesNothing ==
    [][ (StepCalled /\ used'.path = "guard")
        => ( /\ env'.state = env.state
             /\ env'.current_step = env.current_step
             /\ env'.total_pnl = env.total_pnl
             /\ env'.num_successes = env.num_successes
             /\ env'.num_reverts = env.num_reverts
             /\ ret'.obs = env.state ) ]_vars

\* C9 (threshold gating): for every state and action with
\* state.spread < action.threshold, step() returns pnl = 0, gas_cost = 0 and
\* success = false, draws no revert, and leaves the success and revert
\* counters unchanged, whatever the other action components are.
C9_ThresholdGating ==
    [][ (StepCalled /\ env.state[1] < used'.threshold)
        => ( /\ ret'.info.pnl = 0
             /\ ret'.info.gas_cost = 0
             /\ ret'.info.success = FALSE
             /\ used'.path \in {"guard", "gate"}
             /\ env'.num_successes = env.num_successes
             /\ env'.num_reverts = env.num_reverts ) ]_vars

\* a gated step: the spread was below an in-range threshold, the capital
\* guard passed, and a flash loan with a priority fee was proposed
C9_Witness ==
    /\ ret.kind = "step"
    /\ used.path = "gate"
    /\ used.threshold = 5
    /\ used.use_flashloan
    /\ used.trade_size = 10000
    /\ ret.info.pnl = 0

\* C10 (action clamping): the threshold used by the gate lies in
\* [0.0005, 0.005] and the priority fee used for the gas price and the revert
\* probability lies in [0, 5].
C10_ActionClamped ==
    /\ (ret.kind = "step" /\ used.path \in {"gate", "revert", "success"})
          => (action_space.low[1] <= used.threshold /\ used.threshold <= action_space.high[1])
    /\ TradeExecuted
          => (action_space.low[4] <= used.priority_fee /\ used.priority_fee <= action_space.high[4])

\* C4 (loss-limit termination): after a step(), terminated = true exactly
\* when the sum of the PnL realized by the step() calls since the last
\* reset() is below -10000.
C4_LossLimitTermination ==
    ret.kind = "step" => (ret.terminated <=> hist.sum_pnl < -(10000 * USD))

\* C5 (step-budget truncation): every step() call returns truncated = true
\* exactly when the environment's step index after the call is >= max_steps,
\* on every return path.
C5_StepBudgetTruncation ==
    ret.kind = "step" => (ret.truncated <=> env.current_step >= 1000)

\* C6 (determinism): two independent runs that call reset(seed=s) with the
\* same seed and feed the same actions to step() see identical market
\* states, outcomes and rewards.
C6_Determinism ==
    (twin.on /\ ret.kind # "none" /\ env.np_random = twin.env.np_random)
        => (ret = twin.ret /\ env.state = twin.env.state)

\* C11 (size index clamp): for every raw value of action[1] (below 0, above
\* 3, fractional) the index used by step() is in {0,1,2,3}: 0 for a raw value
\* at or below 0, 3 for one at or above 3, the integer part otherwise; the
\* trade size is the configured size at that index.
C11_SizeIndexClamped ==
    ret.kind = "step" =>
        /\ used.trade_size_idx \in 0..3
        /\ used.trade_size = trade_sizes[used.trade_size_idx + 1]
        /\ used.trade_size \in {50, 100, 1000, 10000}
        /\ used.size_raw <= 0 => used.trade_size_idx = 0
        /\ used.size_raw >= 30 => used.trade_size_idx = 3
        /\ (0 < used.size_raw /\ used.size_raw < 30)
              => ( /\ used.trade_size_idx * 10 <= used.size_raw
                   /\ used.size_raw < used.trade_size_idx * 10 + 10 )

\* a step() whose raw size component was 4.0, and ran with $10000
C11_Witness ==
    /\ ret.kind = "step"
    /\ used.size_raw = 40
    /\ used.trade_size = 10000
    /\ used.path = "success"

\* the transition is one iteration of the step loop of
\* HistoricalBacktester.run_backtest (also run by L2Backtester)
BaseRunnerStep == StepCalled /\ bt.pc = "steps" /\ bt.variant # "heuristic"

\* C12 (record only attempted trades): run_backtest appends a trade record
\* and a capital entry for exactly those steps in which a trade was attempted
\* (the capital guard passed and spread >= threshold); no-trade steps and
\* insufficient-capital steps append nothing.
C12_RecordExactlyAttempted ==
    [][ BaseRunnerStep
        => IF used'.path \in {"revert", "success"}
           THEN /\ Len(bt'.trades) = Len(bt.trades) + 1
                /\ Len(bt'.capital_history) = Len(bt.capital_history) + 1
           ELSE /\ bt'.trades = bt.trades
                /\ bt'.capital_history = bt.capital_history ]_vars

\* C13 (trajectory length): in every runner variant, after run_backtest the
\* capital trajectory starts with the initial capital and has exactly one
\* entry per recorded trade after it, and result.total_trades equals the
\* number of records in result.trades.
C13_TrajectoryLength ==
    bt.pc = "done" =>
        /\ bt.capital_history[1] = bt.initial_capital
        /\ Len(bt.capital_history) = 1 + Len(bt.result.trades)
        /\ bt.result.total_trades = Len(bt.result.trades)

\* C14 (bankruptcy stop): in every runner variant, once a recorded trade has
\* brought the runner's capital to zero or below, no further step() is
\* executed in that episode and no further trade is recorded while the
\* capital stays <= 0.
C14_BankruptcyStop ==
    [][ (bt.pc \in {"episode", "steps", "metrics"} /\ bt.total_trades > 0
            /\ bt.current_capital <= 0)
        => ( /\ ~StepCalled
             /\ bt'.trades = bt.trades
             /\ bt'.total_trades = bt.total_trades
             /\ bt'.capital_history = bt.capital_history ) ]_vars

\* C15 (drawdown bound): for every capital trajectory that run_backtest can
\* produce, including one whose last trade drives the capital below zero,
\* the reported max_drawdown lies in [0, 100] (percent).
C15_DrawdownBound ==
    bt.pc = "done" =>
        (0 <= bt.result.max_drawdown /\ bt.result.max_drawdown <= 100 * 100)

\* the running peak at entry i of a trajectory h
RunningPeak(h, i) == CHOOSE p \in { h[j] : j \in 1..i } : \A j \in 1..i : h[j] <= p

\* the drawdown at entry i: (peak - capital) / peak, 0 where the peak is <= 0
DrawdownAt(h, i) ==
    IF RunningPeak(h, i) > 0 THEN Ratio(RunningPeak(h, i) - h[i], RunningPeak(h, i)) ELSE 0

\* C16 (drawdown formula): max_drawdown is the maximum over the trajectory
\* of (running peak - capital) / running peak, as a percentage, taking 0
\* where the running peak is <= 0; it is exactly 0 for every non-decreasing
\* trajectory and for a trajectory with fewer than 2 entries.
C16_DrawdownFormula ==
    bt.pc = "drawdown" =>
        LET h == bt.capital_history
        IN  /\ Len(h) < 2 => bt.max_drawdown = 0
            /\ Len(h) >= 2 =>
                  /\ \A i \in 1..Len(h) : DrawdownAt(h, i) <= bt.max_drawdown
                  /\ \E i \in 1..Len(h) : DrawdownAt(h, i) = bt.max_drawdown
            /\ (\A i \in 1..(Len(h) - 1) : h[i] <= h[i + 1]) => bt.max_drawdown = 0

\* a trajectory that rises to a new peak and falls below it but above its start
C16_Witness ==
    /\ bt.pc = "drawdown"
    /\ bt.capital_history = <<10 * USD, 20 * USD, 5 * USD, 10 * USD>>
    /\ bt.max_drawdown = 7500

\* C18 (win rate and average profit): in every runner variant the result has
\* win_rate = successful_trades / total_trades, within [0, 1], and
\* avg_profit_per_trade = total_pnl / total_trades; both are 0 when no trade
\* was counted.
C18_WinRateAndAverage ==
    bt.pc = "done" =>
        LET r == bt.result
        IN  /\ 0 <= r.win_rate /\ r.win_rate <= 10000
            /\ r.total_trades = 0 => (r.win_rate = 0 /\ r.avg_profit_per_trade = 0)
            /\ r.total_trades > 0 =>
                  /\ r.win_rate * r.total_trades <= r.successful_trades * 10000
                  /\ r.successful_trades * 10000 < (r.win_rate + 1) * r.total_trades
                  /\ r.avg_profit_per_trade * r.total_trades <= r.total_pnl
                  /\ r.total_pnl < (r.avg_profit_per_trade + 1) * r.total_trades

\* a finished run with three trades, one of them successful
C18_Witness ==
    /\ bt.pc = "done"
    /\ bt.result.total_trades = 3
    /\ bt.result.successful_trades = 1
    /\ bt.result.win_rate = 3333

\* the sum of the pnl fields of the records i.. of a trade log
RECURSIVE SumPnlFrom(_, _)
SumPnlFrom(trades, i) ==
    IF i > Len(trades) THEN 0 ELSE trades[i].pnl + SumPnlFrom(trades, i + 1)

\* the sum of the gas_cost fields of the records i.. of a trade log
RECURSIVE SumGasFrom(_, _)
SumGasFrom(trades, i) ==
    IF i > Len(trades) THEN 0 ELSE trades[i].gas_cost + SumGasFrom(trades, i + 1)

C20_RewardFunction ==
    [][ (StepCalled /\ used'.path # "guard")
        => ret'.reward =
              ret'.info.pnl
              - (IF used'.path = "revert" THEN 100 * USD ELSE 0)
              - (IF ret'.info.gas_cost > 50 * USD
                 THEN 2 * (ret'.info.gas_cost - 50 * USD) ELSE 0)
              - (IF used'.path = "gate" /\ env.state[1] > 100 THEN 5 * USD ELSE 0) ]_vars

\* C17 (Sharpe degeneracy): the Sharpe ratio is exactly 0 whenever the trade
\* log has fewer than 2 entries or all recorded PnLs are equal.
C17_SharpeDegeneracy ==
    bt.pc = "sharpe" =>
        ( ( \/ Len(bt.trades) < 2
            \/ \A i, j \in 1..Len(bt.trades) : bt.trades[i].pnl = bt.trades[j].pnl )
          => bt.sharpe_ratio = 0 )

\* the scenario: spread 0.01, liquidity 1.0, gas multiplier 1.0; trade size
\* 10000, priority fee 2.0, no flash loan; the trade did not revert
CostScenario ==
    /\ ret.kind = "trade"
    /\ env.state[1] = 100 /\ env.state[2] = 10 /\ env.gas_multiplier = 100
    /\ used.threshold <= 100
    /\ used.trade_size = 10000 /\ used.priority_fee = 20 /\ ~used.use_flashloan
    /\ ~ret.trade_result.reverted

\* C21 (cost-model scenario): in the scenario the trade model yields gas cost
\* $15.00 (150000 gas units at 40 gwei), gross profit $100.00, flash-loan fee
\* 0, slippage about $0.316 on a pool of $10,000,000, net PnL = gross -
\* slippage - gas (about $84.68) with success = true, and the reward equals
\* the net PnL.
C21_CostScenario ==
    CostScenario =>
        /\ ret.trade_result.gas_cost = 15 * USD
        /\ GasCostUSD(FALSE, 100, 20) = 15 * USD
        /\ GrossProfit(10000, 100) = 100 * USD
        /\ FlashLoanFee(10000, FALSE) = 0
        /\ 3160 <= SlippageCost(10000, 10) /\ SlippageCost(10000, 10) <= 3170
        /\ ret.trade_result.pnl = (100 * USD - SlippageCost(10000, 10)) - 15 * USD
        /\ 846700 <= ret.trade_result.pnl /\ ret.trade_result.pnl <= 846900
        /\ ret.trade_result.success
        /\ ret.reward = ret.trade_result.pnl

\* the scenario was run and the trade succeeded
C21_Witness == CostScenario /\ ret.trade_result.success /\ ret.trade_result.pnl > 0

\* C22 (reset): after reset(), whatever steps preceded it, the step counter,
\* the cumulative PnL and the success and revert counters are 0, and the
\* returned state is the freshly sampled market state, whose recent-success,
\* recent-revert and time-of-day components are 0.
C22_ResetClearsCounters ==
    ret.kind = "reset" =>
        /\ env.current_step = 0
        /\ env.total_pnl = 0
        /\ env.num_successes = 0
        /\ env.num_reverts = 0
        /\ ret.obs = env.state
        /\ ret.obs[6] = 0 /\ ret.obs[7] = 0 /\ ret.obs[8] = 0

\* the reset() that opens the second episode of a run whose first episode
\* stepped the environment and recorded a trade
C22_Witness ==
    /\ ret.kind = "reset"
    /\ bt.pc = "steps"
    /\ bt.episode = 1
    /\ bt.total_trades >= 1
    /\ env.current_step = 0

\* s is an initial segment of t
IsPrefix(s, t) == Len(s) <= Len(t) /\ \A i \in 1..Len(s) : s[i] = t[i]

\* C23 (append-only): across a whole multi-episode run every step of
\* run_backtest leaves the existing entries of the trade log and of the
\* capital trajectory unchanged and in order, and env.reset() at an episode
\* boundary changes neither them nor the runner's running capital.
C23_AppendOnly ==
    [][ /\ IsPrefix(bt.trades, bt'.trades)
        /\ IsPrefix(bt.capital_history, bt'.capital_history)
        /\ ret'.kind = "reset"
              => ( /\ bt'.trades = bt.trades
                   /\ bt'.capital_history = bt.capital_history
                   /\ bt'.current_capital = bt.current_capital ) ]_vars

\* a run that recorded trades in two episodes, with the reset() between them
C23_Witness ==
    /\ \E i, j \in 1..Len(bt.trades) : bt.trades[i].episode = 0 /\ bt.trades[j].episode = 1
    /\ Len(bt.capital_history) = 1 + Len(bt.trades)

\* C24 (runner capital and the guard): in every runner variant a trade
\* without a flash loan is answered with insufficient_capital only if its
\* size exceeds the runner's initial capital plus the PnL realized so far.
C24_GuardUsesRunnerCapital ==
    (bt.pc \in {"episode", "steps"} /\ ret.kind = "step" /\ used.path = "guard")
        => used.trade_size * USD > bt.initial_capital + bt.total_pnl

\* the transition is one iteration of the step loop of
\* HeuristicBacktester.run_backtest
HeuristicStep == StepCalled /\ bt.pc = "steps" /\ bt.variant = "heuristic"

\* C25 (heuristic policy): the heuristic abstains when spread < 0.001 and
\* otherwise proposes the largest trade-size tier that the runner's current
\* capital affords without a flash loan, and no proposal is answered with
\* insufficient_capital.
C25_HeuristicAffordable ==
    [][ HeuristicStep
        => IF ret.obs[1] < 10
           THEN ret'.info.pnl = 0 /\ used'.path # "revert" /\ used'.path # "success"
           ELSE /\ ~used'.use_flashloan
                /\ used'.trade_size * USD <= bt.current_capital
                /\ \A i \in 1..Len(trade_sizes) :
                      trade_sizes[i] * USD <= bt.current_capital
                          => trade_sizes[i] <= used'.trade_size
                /\ used'.path # "guard" ]_vars

\* C26 (every episode ends): a driver that calls step() after reset() until
\* terminated or truncated is returned has stopped by its max_steps-th call:
\* the return of that call has terminated or truncated set.
C26_EpisodeEnds ==
    (ret.kind = "step" /\ hist.calls = max_steps)
        => (ret.terminated \/ ret.truncated)

\* C27 (capital exhaustion is reported): when the runner's capital is <= 0
\* at the top of an episode, run_backtest starts no further episode, and
\* from there it returns a BacktestResult with its metrics; it never leaves
\* by an exception, for every initial capital >= 0.
C27_ExhaustionReported ==
    [][ /\ (bt.pc = "episode" /\ bt.episode < bt.num_episodes
              /\ bt.current_capital <= 0 /\ bt' # bt)
            => bt'.pc = "metrics"
        /\ (bt.pc = "metrics" /\ bt' # bt)
            => (bt'.pc = "done" /\ bt'.result.returned) ]_vars

\* C28 (outcome shapes): every outcome of the trade model is a no-trade
\* (success and reverted false, pnl 0, gas cost 0), which is the outcome
\* exactly when the spread is below the threshold, a reverted trade (success
\* false, reverted true, pnl = -gas_cost) or a success (success true,
\* reverted false); success and reverted are never both true.
C28_OutcomeShapes ==
    ret.kind = "trade" =>
        LET t == ret.trade_result
        IN  /\ ~(t.success /\ t.reverted)
            /\ (~t.success /\ ~t.reverted) <=> env.state[1] < used.threshold
            /\ (~t.success /\ ~t.reverted) => (t.pnl = 0 /\ t.gas_cost = 0)
            /\ t.reverted => t.pnl = -t.gas_cost

\* a trade that passed the gate reverted and paid gas
C28_Witness ==
    /\ ret.kind = "trade"
    /\ ret.trade_result.reverted /\ ~ret.trade_result.success
    /\ ret.trade_result.gas_cost > 0
    /\ env.state[1] >= used.threshold

\* C29 (gas and revert signs): for every action step() takes, the gas cost
\* reported in info is never negative and a reverted trade never has a
\* positive PnL.
C29_GasAndRevertSigns ==
    ret.kind = "step" =>
        /\ ret.info.gas_cost >= 0
        /\ used.path = "revert" => ret.info.pnl <= 0

\* C30 (observed state): within one step() the gate, the trade economics and
\* the reward (with its passivity penalty) are those of the market state that
\* the preceding reset() or step() returned; the market state is replaced by
\* one fresh sample, which step() returns, on a step that passes the capital
\* guard, and is left as it is on a step that does not.
C30_ObservedState ==
    [][ StepCalled =>
          /\ ret.kind # "none" => ret.obs = env.state
          /\ IF used'.path = "guard"
             THEN env'.state = env.state /\ ret'.obs = env.state
             ELSE /\ (used'.path = "gate") <=> (env.state[1] < used'.threshold)
                  /\ \E u \in RevertDraws :
                        \E t \in {_simulate_trade(env, used'.threshold, used'.trade_size,
                                                  strategies[1], used'.priority_fee,
                                                  used'.use_flashloan, u)} :
                            /\ ret'.info.pnl = t.pnl
                            /\ ret'.info.gas_cost = t.gas_cost
                            /\ ret'.info.success = t.success
                            /\ ret'.reward = _calculate_reward(env, t)
                  /\ \E d \in MarketDraws :
                        env'.state = _generate_market_state(env', d)
                  /\ ret'.obs = env'.state ]_vars

\* a trade succeeded on the observed spread, and the state sampled after it
\* has a spread below the threshold of the trade
C30_Witness ==
    /\ ret.kind = "step" /\ used.path = "success"
    /\ ret.obs = env.state
    /\ env.state[1] < used.threshold

====
